---- MODULE Spec2Model ----
(***************************************************************************)
(* The asynchronous generation pipeline of the product image generator:    *)
(* the submission route, the BullMQ queue with its worker (one per process *)
(* that loads the queue module), the synthesis client, the image storage   *)
(* and the logo step of the worker.                                        *)
(*                                                                         *)
(* Time is counted in ticks, TicksPerWindow of them to the limiter's       *)
(* window of RATE_LIMIT_DURATION_MS (60 s).  A number of                   *)
(* images is kept in units of 1/Scale, so that the fractional values a     *)
(* JSON body can carry are inputs too.  An optional value is <<>> when it  *)
(* is undefined and <<v>> when it is v.                                    *)
(***************************************************************************)
EXTENDS Integers, Sequences, FiniteSets, TLC

VARIABLES
    procs,      \* the processes that loaded the queue module (one Worker each)
    now,        \* the clock, in ticks
    inbox,      \* the request bodies the callers are about to send
    callers,    \* per caller: where it is in router.post and its response
    jobs,       \* the queue's jobs, by id: payload, state, return value, log
    wait,       \* the queue's wait list (job ids, oldest first)
    limiter,    \* the queue's rate limiter key: counter and expiry
    wk,         \* per process: the worker's position and its locals
    files,      \* the generated-images directory: filename -> content
    started,    \* the job ids in the order they became active
    faults,     \* the faults the environment injected, and how many it may
    horizon,    \* the tick the clock stops at
    comp        \* the compositor's last call: its arguments and its result

vars == <<procs, now, inbox, callers, jobs, wait, limiter, wk, files, started, faults,
          horizon, comp>>

----------------------------------------------------------------------------
\* Bounds of the model.

\* Processes that may load the queue module.
NumProcs == 2
\* Requests of a burst.
MaxJobs == 7
\* Ticks the clock runs during a burst.
MaxTime == 2
\* Callers that wait for their jobs past the timeout.
MaxWaiters == 2
\* Faults the environment injects during a burst.
MaxFaults == 1
\* A number of images is a multiple of 1/Scale.
Scale == 2
\* The largest base image side, and the overlay's side that is not 1.
MaxBase == 1000
MaxOverlay == 335
\* The largest offset of a logo, in pixels.
MaxOffset == 2001
\* Ticks of the clock in one window of the rate limiter.
TicksPerWindow == 2

----------------------------------------------------------------------------
\* Program constants.

MIN_IMAGES == 1
MAX_IMAGES == 4
DEFAULT_IMAGES == 1
MIN_DESCRIPTION_LENGTH == 3
MAX_DESCRIPTION_LENGTH == 1000
CONCURRENCY == 1
RATE_LIMIT_MAX == 5
RATE_LIMIT_DURATION_MS == 60000
TIMEOUT_MS == 300000
RETRY_ATTEMPTS == 3

EDGE_PADDING == 20

DEFAULT_RESOLUTION == "1024x1024"
DEFAULT_CATEGORY == "other"
SUPPORTED_RESOLUTIONS == {"512x512", "768x768", "1024x1024"}

\* One tick of the clock, in ms.
TickMs == RATE_LIMIT_DURATION_MS \div TicksPerWindow
RateLimitTicks == RATE_LIMIT_DURATION_MS \div TickMs
TimeoutTicks == TIMEOUT_MS \div TickMs

----------------------------------------------------------------------------
\* Optional values and sequences.

None == <<>>
Some(v) == <<v>>
IsSome(o) == o # <<>>
\* JavaScript's  o || d  for an optional number: undefined and 0 are falsy.
OrDefault(o, d) == IF o = <<>> THEN d ELSE IF o[1] = 0 THEN d ELSE o[1]
\* JavaScript's  o || d  for an optional string.
OrDefaultStr(o, d) == IF o = <<>> THEN d ELSE o[1]

Range(s) == {s[x] : x \in 1..Len(s)}

RECURSIVE SelectIdx(_, _, _)
\* The elements of s at the positions in keep, in the order of s, from x on.
SelectIdx(s, keep, x) ==
    IF x > Len(s) THEN <<>>
    ELSE (IF x \in keep THEN <<s[x]>> ELSE <<>>) \o SelectIdx(s, keep, x + 1)

----------------------------------------------------------------------------
\* Request bodies.

\* A description: undefined, not a string, or a string of a trimmed length.
DescKinds == {"undefined", "nonstring", "string"}
DescLens == {0, MIN_DESCRIPTION_LENGTH - 1, MIN_DESCRIPTION_LENGTH,
             MAX_DESCRIPTION_LENGTH, MAX_DESCRIPTION_LENGTH + 1}
Descriptions ==
    {[kind |-> k, len |-> 0] : k \in {"undefined", "nonstring"}}
    \cup {[kind |-> "string", len |-> l] : l \in DescLens}
GoodDesc == [kind |-> "string", len |-> MIN_DESCRIPTION_LENGTH]

\* settings.numImages: undefined, or a number in units of 1/Scale.
NumImagesInputs == {None} \cup {Some(v) : v \in 0..(MAX_IMAGES * Scale + 1)}
ResolutionInputs == {None} \cup {Some(r) : r \in SUPPORTED_RESOLUTIONS \cup {"640x480"}}
\* logo: absent (type "absent"), or its type, one no handler knows among
\* them, and whether its content is a non-empty string.
NoLogo == [type |-> "absent", content |-> FALSE]
LogoInputs ==
    {NoLogo, [type |-> "none", content |-> TRUE], [type |-> "other", content |-> TRUE]}
    \cup {[type |-> t, content |-> c] : t \in {"text", "image"}, c \in BOOLEAN}

\* A request: its fields, the tick it arrives in, the process it reaches and
\* the route that process mounts: the one that calls validateGenerateRequest
\* ("validated") or the one of routes/generate.ts ("plain").
Body(d, n, r, l) ==
    [object |-> TRUE, description |-> d, category |-> None, numImages |-> n,
     resolution |-> r, logo |-> l, at |-> 0, via |-> 1, route |-> "validated"]

\* The bodies a caller sends: every number of images with every logo, and
\* every description and every resolution with the other fields left out, and
\* a body that is no object.
Bodies ==
    {Body(GoodDesc, n, None, l) : n \in NumImagesInputs, l \in LogoInputs}
    \cup {[Body(GoodDesc, None, None, NoLogo) EXCEPT !.object = FALSE]}
    \cup {Body(d, None, None, NoLogo) : d \in Descriptions}
    \cup {Body(GoodDesc, None, r, NoLogo) : r \in ResolutionInputs}
    \cup {[Body(GoodDesc, None, None, NoLogo) EXCEPT !.category = Some("toy")]}

\* The body of a burst's requests: all fields but the description left out.
PlainBody == Body(GoodDesc, None, None, NoLogo)

----------------------------------------------------------------------------
\* Validation.

validateDescription(d) ==
    /\ d.kind = "string"
    /\ d.len > 0
    /\ d.len >= MIN_DESCRIPTION_LENGTH
    /\ d.len <= MAX_DESCRIPTION_LENGTH

\* A validation that lets every number of images pass.
AnyNumImages(v) == TRUE

validateNumImages(v) ==
    ~(v < MIN_IMAGES * Scale \/ v > MAX_IMAGES * Scale)

validateResolution(r) == r \in SUPPORTED_RESOLUTIONS

validateGenerateRequest(b) ==
    /\ b.object
    /\ validateDescription(b.description)
    /\ IsSome(b.numImages) => validateNumImages(b.numImages[1])
    /\ IsSome(b.resolution) => validateResolution(b.resolution[1])

----------------------------------------------------------------------------
\* The route: responses and the job payload.

NoResponse == [status |-> 0, success |-> FALSE, images |-> <<>>, error |-> ""]

\* An error response that reports success.
createErrorAsSuccess(status, error) ==
    [status |-> status, success |-> TRUE, images |-> <<>>, error |-> error]

\* status is the code router.post gives res.status() beside the body.
createErrorResponse(status, error) ==
    [status |-> status, success |-> FALSE, images |-> <<>>, error |-> error]

createSuccessResponse(images) ==
    [status |-> 200, success |-> TRUE, images |-> images, error |-> ""]

\* The payload router.post puts on the queue: the body's fields, the category
\* and the settings replaced by their values with the defaults applied.
JobPayload(b) ==
    [description |-> b.description,
     category |-> Some(OrDefaultStr(b.category, DEFAULT_CATEGORY)),
     numImages |-> Some(OrDefault(b.numImages, DEFAULT_IMAGES * Scale)),
     resolution |-> Some(OrDefaultStr(b.resolution, DEFAULT_RESOLUTION)),
     logo |-> b.logo]

\* The payload the route of routes/generate.ts puts on the queue: the body's
\* fields as they came.
PlainPayload(b) ==
    [description |-> b.description,
     category |-> b.category, numImages |-> b.numImages,
     resolution |-> b.resolution, logo |-> b.logo]

\* The checks of the route of routes/generate.ts: the description, then the
\* number of images with its default applied.
validatePlain(b) ==
    /\ b.description.kind = "string"
    /\ b.description.len > 0
    /\ b.description.len >= 3
    /\ ~(OrDefault(b.numImages, 1 * Scale) < 1 * Scale
         \/ OrDefault(b.numImages, 1 * Scale) > 4 * Scale)

\* What the route a request reaches lets pass, and what it enqueues.
Accepted(b) ==
    IF b.route = "plain" THEN validatePlain(b) ELSE validateGenerateRequest(b)
Payload(b) ==
    IF b.route = "plain" THEN PlainPayload(b) ELSE JobPayload(b)

NewJob(b) ==
    [data |-> Payload(b), state |-> "waiting", startedAt |-> None,
     images |-> <<>>, reason |-> "",
     calls |-> <<>>, okIdx |-> {}, rejected |-> {}, logoLog |-> <<>>, saved |-> <<>>]

IdleCaller == [state |-> "idle", job |-> 0, since |-> 0, resp |-> NoResponse]

Terminal(j) == jobs[j].state \in {"completed", "failed"}

----------------------------------------------------------------------------
\* What a job record keeps beside the queue's own fields (data, state, images:
\* the return value, reason: the failure): the indices generateImages called,
\* in order (calls), those whose call resolved (okIdx) or rejected (rejected),
\* the filenames saveImagesLocally returned (saved) and, per round of the logo
\* loop, what became of the image (logoLog).

\* The environment's faults.

CanFault(n) == IF faults.cap = None THEN TRUE ELSE faults.used + n <= faults.cap[1]
Charged(n) == IF faults.cap = None THEN faults ELSE [faults EXCEPT !.used = @ + n]

----------------------------------------------------------------------------
\* A process runs until an exception nobody catches ends it (server.ts
\* installs no handler), its worker and its pending requests with it.
Alive(p) == wk[p].pc # "dead"

\* A route that waits for the oldest job of the queue.
OldestJob(c) == 1

\* The job router.post waits for: the one its own imageQueue.add returned.
WaitedJob(c) == callers[c].job

\* The requests reach the route in the order of the inbox.
Arrives(c) ==
    /\ callers[c].state = "idle"
    /\ Alive(inbox[c].via)
    /\ inbox[c].at = now
    /\ \A d \in 1..(c - 1) : callers[d].state # "idle"

\* router.post('/'): validation fails, the caller gets a 400 and no job.
Reject(c) ==
    /\ Arrives(c)
    /\ ~Accepted(inbox[c])
    /\ callers' = [callers EXCEPT ![c] =
          [@ EXCEPT !.state = "done", !.resp = createErrorResponse(400, "validation")]]
    /\ UNCHANGED <<procs, now, inbox, jobs, wait, limiter, wk, files, started, faults, horizon, comp>>

\* router.post('/'): validation passes, the job is added and the caller waits
\* for it (job.waitUntilFinished, called without a ttl).
Enqueue(c) ==
    /\ Arrives(c)
    /\ Accepted(inbox[c])
    /\ LET id == Len(jobs) + 1 IN
        /\ jobs' = Append(jobs, NewJob(inbox[c]))
        /\ wait' = Append(wait, id)
        /\ callers' = [callers EXCEPT ![c] =
              [@ EXCEPT !.state = "waiting", !.job = id, !.since = now]]
    /\ UNCHANGED <<procs, now, inbox, limiter, wk, files, started, faults, horizon, comp>>

\* router.post('/'): waitUntilFinished settles with the job's return value or
\* its failure, and the response is sent.
Respond(c) ==
    /\ callers[c].state = "waiting"
    /\ Alive(inbox[c].via)
    /\ Terminal(WaitedJob(c))
    /\ LET job == jobs[WaitedJob(c)] IN
        callers' = [callers EXCEPT ![c] =
          [@ EXCEPT !.state = "done",
                    !.resp = IF job.state = "completed"
                             THEN createSuccessResponse(job.images)
                             ELSE createErrorResponse(500, job.reason)]]
    /\ UNCHANGED <<procs, now, inbox, jobs, wait, limiter, wk, files, started, faults, horizon, comp>>

----------------------------------------------------------------------------
\* The worker.

IdleWorker ==
    [pc |-> "idle", job |-> 0, numImages |-> 0, i |-> 0, imageBuffers |-> <<>>,
     savedImages |-> <<>>, k |-> 0, last |-> None]

\* Jobs this process's worker is running.
Running(p) == IF wk[p].pc \in {"idle"} THEN 0 ELSE 1

\* The worker option  concurrency: QUEUE.CONCURRENCY .
WorkerFree(p) == Running(p) < CONCURRENCY

\* The worker option  limiter: {max, duration} : the queue-wide counter key.
LimiterOpen == IF limiter.expires <= now THEN TRUE ELSE limiter.count < RATE_LIMIT_MAX
LimiterHit ==
    IF limiter.expires <= now
    THEN [count |-> 1, expires |-> now + RateLimitTicks]
    ELSE [limiter EXCEPT !.count = @ + 1]

\* A worker that takes the newest job of the wait list.
NextJobNewest == wait[Len(wait)]

\* The job a free worker takes: the oldest of the wait list.
NextJob == Head(wait)

\* The loop condition of generateImages:  i < numImages .
LoopContinues(i, n) == i * Scale < n

\* A worker that enters its logo loop for every job.
LogoAlways(l) == TRUE

\* The worker's test  logo && logo.type !== 'none' .
LogoRequested(l) == l.type \notin {"absent", "none"}

\* The worker's processor until its first await: the defaults, the prompt,
\* then generateImages issues the call for index 0.
Start(p) ==
    /\ p \in procs
    /\ wk[p].pc = "idle"
    \* the workers are alike: the free one of the lowest number takes the job
    /\ \A q \in procs : q < p => wk[q].pc # "idle"
    /\ WorkerFree(p)
    /\ wait # <<>>
    /\ LimiterOpen
    /\ LET j == NextJob
           n == OrDefault(jobs[j].data.numImages, DEFAULT_IMAGES * Scale)
       IN
        /\ wait' = SelectSeq(wait, LAMBDA x : x # j)
        /\ limiter' = LimiterHit
        /\ started' = Append(started, j)
        /\ jobs' = [jobs EXCEPT ![j] =
              [@ EXCEPT !.state = "active", !.startedAt = Some(now), !.calls = IF LoopContinues(0, n) THEN <<0>> ELSE <<>>]]
        /\ wk' = [wk EXCEPT ![p] =
              [IdleWorker EXCEPT !.pc = IF LoopContinues(0, n) THEN "synth" ELSE "save",
                                 !.job = j, !.numImages = n]]
    /\ UNCHANGED <<procs, now, inbox, callers, files, faults, horizon, comp>>

\* The job ends: BullMQ moves it to completed or failed, the worker is free.
Finish(p, state, images, reason) ==
    [jobs EXCEPT ![wk[p].job] =
        [@ EXCEPT !.state = state, !.images = images, !.reason = reason]]

----------------------------------------------------------------------------
\* The synthesis client.

\* What the service answers: a status (0: no answer, a network error) and
\* whether the body parses as JSON.
Responses ==
    {[status |-> 200, json |-> FALSE], [status |-> 503, json |-> TRUE],
     [status |-> 503, json |-> FALSE], [status |-> 500, json |-> TRUE],
     [status |-> 0, json |-> FALSE]}

\* callHuggingFace: the promise resolves, rejects, or (JSON.parse throwing in
\* the response's 'end' handler) never settles.
callHuggingFace(resp) ==
    IF resp.status = 200 THEN "resolve"
    ELSE IF resp.status = 503 THEN (IF resp.json THEN "reject" ELSE "uncaught")
    ELSE "reject"

\* The message of the error callHuggingFace rejects with ("" when it resolves).
ErrorMessage(resp) ==
    IF resp.status = 200 THEN ""
    ELSE IF resp.status = 503 THEN "loading" ELSE "error"

\* generateImages with a catch clause that never rethrows.
FailFastNever(i) == FALSE

\* generateImages: the catch clause rethrows for the first image only.
FailFast(i) == i = 0

\* generateImages after the call for index i settled: the next index, whose
\* call is issued, or the end of the loop.
Advance(p, w, j) ==
    IF LoopContinues(w.i + 1, w.numImages)
    THEN /\ wk' = [wk EXCEPT ![p] = [w EXCEPT !.i = @ + 1]]
         /\ jobs' = [j EXCEPT ![w.job].calls = Append(@, w.i + 1)]
    ELSE /\ wk' = [wk EXCEPT ![p] = [w EXCEPT !.i = @ + 1, !.pc = "save"]]
         /\ jobs' = j

\* The call for index i comes back.
SynthReturn(p) ==
    /\ wk[p].pc = "synth"
    /\ \E resp \in Responses :
        LET w == wk[p]
            r == callHuggingFace(resp)
            seen == [w EXCEPT !.last = Some([idx |-> w.i, message |-> ErrorMessage(resp)])]
        IN
        /\ CanFault(IF r = "resolve" THEN 0 ELSE 1)
        /\ faults' = Charged(IF r = "resolve" THEN 0 ELSE 1)
        /\ CASE r = "resolve" ->
                 Advance(p, [seen EXCEPT !.imageBuffers = Append(@, <<w.job, w.i>>)],
                         [jobs EXCEPT ![w.job].okIdx = @ \cup {w.i}])
             [] r = "reject" ->
                 IF FailFast(w.i)
                 THEN /\ jobs' = [Finish(p, "failed", <<>>, ErrorMessage(resp))
                                    EXCEPT ![w.job].rejected = @ \cup {w.i}]
                      /\ wk' = [wk EXCEPT ![p] = IdleWorker]
                 ELSE Advance(p, seen, [jobs EXCEPT ![w.job].rejected = @ \cup {w.i}])
             [] OTHER ->
                 \* the uncaught exception ends the process
                 /\ wk' = [wk EXCEPT ![p] = [seen EXCEPT !.pc = "dead"]]
                 /\ jobs' = jobs
    /\ UNCHANGED <<procs, now, inbox, callers, wait, limiter, files, started, horizon, comp>>

----------------------------------------------------------------------------
\* The storage.

\* uuidv4().slice(0, 8) in the worker's pipeline: the draws of different
\* jobs are taken to differ there, the id of the job stands for the value
\* (draws that coincide are the subject of the storage's own specification).
BatchId(j) == j

generateFilename(timestamp, batchId, index) == <<timestamp, batchId, index>>

\* A storage whose writes have not reached the directory when
\* saveImagesLocally returns.
WrittenLater(bufs, ok, ts, b) == [f \in {} |-> [buf |-> <<0, 0>>, logo |-> FALSE]]

\* The files saveImagesLocally writes: buffer x (from 1) gets index x - 1.
Written(bufs, ok, ts, b) ==
    [f \in {generateFilename(ts, b, x - 1) : x \in ok} |->
        [buf |-> bufs[f[3] + 1], logo |-> FALSE]]

\* A saveImagesLocally that gives up at the first write that fails.
saveImagesUntilFailure(imageBuffers, timestamp, batchId, ok) ==
    LET done == {x \in ok : \A y \in 1..x : y \in ok}
    IN [files |-> Written(imageBuffers, done, timestamp, batchId),
        savedImages |-> SelectIdx([x \in 1..Len(imageBuffers) |->
                                     generateFilename(timestamp, batchId, x - 1)], done, 1)]

\* saveImagesLocally with the values of Date.now() and of the uuid's prefix
\* and the set ok of the buffers whose write succeeds: one write per buffer,
\* a failed write is skipped; the files written and the entries returned.
saveImagesLocally(imageBuffers, timestamp, batchId, ok) ==
    [files |-> Written(imageBuffers, ok, timestamp, batchId),
     savedImages |-> SelectIdx([x \in 1..Len(imageBuffers) |->
                                  generateFilename(timestamp, batchId, x - 1)], ok, 1)]

\* The worker's step 4: saveImagesLocally, then the worker goes on to the
\* logo step or returns.
SaveImages(p) ==
    /\ wk[p].pc = "save"
    /\ \E ok \in SUBSET (1..Len(wk[p].imageBuffers)) :
        LET w == wk[p]
            b == BatchId(w.job)
            failed == Len(w.imageBuffers) - Cardinality(ok)
            new == saveImagesLocally(w.imageBuffers, now, b, ok).files
            savedImages == saveImagesLocally(w.imageBuffers, now, b, ok).savedImages
        IN
        /\ CanFault(failed)
        /\ faults' = Charged(failed)
        /\ files' = [f \in DOMAIN files \cup DOMAIN new |->
                        IF f \in DOMAIN new THEN new[f] ELSE files[f]]
        /\ IF LogoRequested(jobs[w.job].data.logo) /\ savedImages # <<>>
           THEN /\ wk' = [wk EXCEPT ![p] =
                      [w EXCEPT !.pc = "logo", !.savedImages = savedImages, !.k = 1]]
                /\ jobs' = [jobs EXCEPT ![w.job].saved = savedImages]
           ELSE /\ wk' = [wk EXCEPT ![p] = IdleWorker]
                /\ jobs' = [Finish(p, "completed", savedImages, "")
                              EXCEPT ![w.job].saved = savedImages]
    /\ UNCHANGED <<procs, now, inbox, callers, wait, limiter, started, horizon, comp>>

----------------------------------------------------------------------------
\* The logo step.

\* The worker's logoPath: set for an image logo with a content; the file it
\* names exists or not.
LogoPath(l, logoFileExists) ==
    IF l.type = "image" /\ l.content THEN Some(logoFileExists) ELSE None

\* An applyLogo that does not look for the logo file or the text.
applyLogoUnchecked(logoSettings, logoPath, sharpOk) ==
    IF logoSettings.type = "none" THEN "unchanged"
    ELSE IF logoSettings.type \in {"image", "text"}
         THEN (IF sharpOk THEN "composited" ELSE "SharpError")
    ELSE "UnsupportedType"

\* applyLogo: the type decides the handler; an image logo needs its file, a
\* text watermark its content, and sharp may fail on any input.  The result
\* is the bytes it returns or the error it throws.
applyLogo(logoSettings, logoPath, sharpOk) ==
    IF logoSettings.type = "none" THEN "unchanged"
    ELSE IF logoSettings.type = "image"
         THEN (IF logoPath = None THEN "LogoFileRequired"
               ELSE IF ~logoPath[1] THEN "LogoFileRequired"
               ELSE IF sharpOk THEN "composited" ELSE "SharpError")
    ELSE IF logoSettings.type = "text"
         THEN (IF ~logoSettings.content THEN "TextRequired"
               ELSE IF sharpOk THEN "composited" ELSE "SharpError")
    ELSE "UnsupportedType"

\* The results of applyLogo that are errors.
Thrown(out) == out \in {"LogoFileRequired", "TextRequired", "UnsupportedType", "SharpError"}

\* Whether the worker's readFileSync of a saved image is inside its try.
ReadBackGuarded == FALSE

\* One round of the worker's loop over savedImages: read the file back,
\* apply the logo, overwrite the file; the image is kept either way.
LogoStep(p) ==
    /\ wk[p].pc = "logo"
    /\ \E readOk \in BOOLEAN, logoFileExists \in BOOLEAN, sharpOk \in BOOLEAN,
          writeOk \in BOOLEAN :
        LET w == wk[p]
            f == w.savedImages[w.k]
            logo == jobs[w.job].data.logo
            logoPath == LogoPath(logo, logoFileExists)
            out == IF readOk THEN applyLogo(logo, logoPath, sharpOk) ELSE "unread"
            nfaults == IF ~readOk THEN 1
                       ELSE IF Thrown(out) THEN 1
                       ELSE IF ~writeOk THEN 1 ELSE 0
            entry == IF out = "composited" /\ ~writeOk THEN "writefail"
                     ELSE IF Thrown(out) THEN "throw" ELSE out
            last == w.k = Len(w.savedImages)
        IN
        /\ readOk => f \in DOMAIN files
        \* outcomes that differ in nothing the step reads are one outcome
        /\ ~readOk => (logoFileExists /\ sharpOk /\ writeOk)
        /\ out # "composited" => writeOk
        /\ logoPath = None => logoFileExists
        /\ out # "composited" /\ out # "SharpError" => sharpOk
        /\ CanFault(nfaults)
        /\ faults' = Charged(nfaults)
        /\ IF ~readOk /\ ~ReadBackGuarded
           THEN /\ jobs' = [Finish(p, "failed", <<>>, "readback")
                              EXCEPT ![w.job].logoLog = Append(@, entry)]
                /\ wk' = [wk EXCEPT ![p] = IdleWorker]
                /\ files' = files
           ELSE /\ files' = IF out = "composited" /\ writeOk
                            THEN [files EXCEPT ![f].logo = TRUE]
                            ELSE files
                /\ IF last
                   THEN /\ jobs' = [Finish(p, "completed", w.savedImages, "")
                                      EXCEPT ![w.job].logoLog = Append(@, entry)]
                        /\ wk' = [wk EXCEPT ![p] = IdleWorker]
                   ELSE /\ jobs' = [jobs EXCEPT ![w.job].logoLog = Append(@, entry)]
                        /\ wk' = [wk EXCEPT ![p] = [w EXCEPT !.k = @ + 1]]
    /\ UNCHANGED <<procs, now, inbox, callers, wait, limiter, started, horizon, comp>>

----------------------------------------------------------------------------
\* The compositor, called on its own, once in a behaviour.

\* The nine anchors of LogoPosition, and a value that is none of them.
Positions ==
    {"center", "top-left", "top-center", "top-right", "middle-left", "middle-right",
     "bottom-left", "bottom-center", "bottom-right"}
PositionInputs == Positions \cup {"elsewhere"}

\* Sides of base images and of overlays (an overlay may exceed the base), and
\* offsets.
BaseDims == {1, MaxBase - 1, MaxBase}
OverlayDims == {1, MaxOverlay, MaxBase + MaxOverlay}
Offsets == {-MaxOffset, -1, 0, 1, MaxOffset}
LogoPaths == {None, Some(TRUE), Some(FALSE)}

\* Math.round of n / 2: the nearest integer, a half going up.
RoundHalves(n) == (n + 1) \div 2

\* The switch of calculatePosition for one axis, in half pixels: the anchor is
\* "start" (padding), "middle" or "end"; any other leaves the 0 it began as.
Anchored(anchor, imageSide, logoSide) ==
    IF anchor = "start" THEN 2 * EDGE_PADDING
    ELSE IF anchor = "middle" THEN imageSide - logoSide
    ELSE IF anchor = "end" THEN 2 * (imageSide - logoSide - EDGE_PADDING)
    ELSE 0

\* The cases of the switch: what a position sets left and top to.
LeftAnchor(position) ==
    IF position \in {"top-left", "middle-left", "bottom-left"} THEN "start"
    ELSE IF position \in {"center", "top-center", "bottom-center"} THEN "middle"
    ELSE IF position \in {"top-right", "middle-right", "bottom-right"} THEN "end"
    ELSE "unset"
TopAnchor(position) ==
    IF position \in {"top-left", "top-center", "top-right"} THEN "start"
    ELSE IF position \in {"center", "middle-left", "middle-right"} THEN "middle"
    ELSE IF position \in {"bottom-left", "bottom-center", "bottom-right"} THEN "end"
    ELSE "unset"

\* A placement that keeps the overlay's corner inside the base image.
calculatePositionClamped(imageWidth, imageHeight, logoWidth, logoHeight, position, offsetX, offsetY) ==
    LET left == RoundHalves(Anchored(LeftAnchor(position), imageWidth, logoWidth)
                            + 2 * offsetX)
        top == RoundHalves(Anchored(TopAnchor(position), imageHeight, logoHeight)
                           + 2 * offsetY)
    IN [left |-> IF left < 0 THEN 0 ELSE IF left > imageWidth THEN imageWidth ELSE left,
        top |-> IF top < 0 THEN 0 ELSE IF top > imageHeight THEN imageHeight ELSE top]

\* A placement that centres every overlay.
calculatePositionCentred(imageWidth, imageHeight, logoWidth, logoHeight, position, offsetX, offsetY) ==
    [left |-> RoundHalves(imageWidth - logoWidth + 2 * offsetX),
     top |-> RoundHalves(imageHeight - logoHeight + 2 * offsetY)]

calculatePosition(imageWidth, imageHeight, logoWidth, logoHeight, position, offsetX, offsetY) ==
    [left |-> RoundHalves(Anchored(LeftAnchor(position), imageWidth, logoWidth)
                          + 2 * offsetX),
     top |-> RoundHalves(Anchored(TopAnchor(position), imageHeight, logoHeight)
                         + 2 * offsetY)]

NoCall ==
    [fn |-> "none", logoSettings |-> NoLogo, logoPath |-> None,
     image |-> <<0, 0>>, logoSize |-> <<0, 0>>, position |-> "", offset |-> <<0, 0>>,
     result |-> "", at |-> [left |-> 0, top |-> 0]]

\* applyLogo is called with a logo's settings and, or not, a path.
CallApplyLogo ==
    /\ comp.fn = "none"
    /\ \E l \in LogoInputs \ {NoLogo}, path \in LogoPaths, sharpOk \in BOOLEAN :
          comp' = [NoCall EXCEPT !.fn = "applyLogo", !.logoSettings = l,
                                 !.logoPath = path,
                                 !.result = applyLogo(l, path, sharpOk)]
    /\ UNCHANGED <<procs, now, inbox, callers, jobs, wait, limiter, wk, files, started,
                   faults, horizon>>

\* calculatePosition is called with the sizes of a base image and an overlay.
CallCalculatePosition ==
    /\ comp.fn = "none"
    /\ \E W \in BaseDims, H \in BaseDims, w \in OverlayDims, h \in OverlayDims,
          position \in PositionInputs, offsetX \in Offsets, offsetY \in Offsets :
          comp' = [NoCall EXCEPT !.fn = "calculatePosition", !.image = <<W, H>>,
                                 !.logoSize = <<w, h>>, !.position = position,
                                 !.offset = <<offsetX, offsetY>>,
                                 !.at = calculatePosition(W, H, w, h, position,
                                                          offsetX, offsetY)]
    /\ UNCHANGED <<procs, now, inbox, callers, jobs, wait, limiter, wk, files, started,
                   faults, horizon>>

----------------------------------------------------------------------------
\* The clock: a tick passes; a limiter key past its expiry is gone.
Tick ==
    /\ now < horizon
    /\ now' = now + 1
    /\ limiter' = IF limiter.expires <= now + 1
                  THEN [count |-> 0, expires |-> 0] ELSE limiter
    /\ UNCHANGED <<procs, inbox, callers, jobs, wait, wk, files, started, faults, horizon, comp>>

----------------------------------------------------------------------------
\* Specifications.

InitCommon ==
    /\ now = 0
    /\ callers = [c \in 1..Len(inbox) |-> IdleCaller]
    /\ jobs = <<>>
    /\ wait = <<>>
    /\ limiter = [count |-> 0, expires |-> 0]
    /\ wk = [p \in procs |-> IdleWorker]
    /\ files = <<>>
    /\ started = <<>>
    /\ comp = NoCall

\* One process serves one request, of any shape, under any faults, or two
\* requests, the first one plain.
Init ==
    /\ procs = {1}
    /\ inbox \in {<<b>> : b \in Bodies} \cup {<<PlainBody, b>> : b \in Bodies}
    /\ faults = [cap |-> None, used |-> 0]
    /\ horizon = 0
    /\ InitCommon

\* Any number of processes serve a burst of requests under few faults.
InitQueue ==
    /\ procs \in {1..n : n \in 1..NumProcs}
    /\ inbox = [c \in 1..MaxJobs |-> PlainBody]
    /\ faults = [cap |-> Some(MaxFaults), used |-> 0]
    /\ horizon = MaxTime
    /\ InitCommon

\* Any number of processes serve a few requests under any faults, the clock
\* running past the timeout.
InitWait ==
    /\ procs \in {1..n : n \in 1..NumProcs}
    /\ inbox \in UNION {[1..n -> {[PlainBody EXCEPT !.via = p] : p \in procs}] :
                         n \in 1..MaxWaiters}
    /\ faults = [cap |-> None, used |-> 0]
    /\ horizon = TimeoutTicks + 1
    /\ InitCommon

\* Any number of processes serve a few requests under any faults, the clock
\* standing still.
InitDeliver ==
    /\ procs \in {1..n : n \in 1..NumProcs}
    /\ inbox \in UNION {[1..n -> {[PlainBody EXCEPT !.via = p] : p \in procs}] :
                         n \in 1..MaxWaiters}
    /\ faults = [cap |-> None, used |-> 0]
    /\ horizon = 0
    /\ InitCommon

\* One process serves one request of any shape on either route.
InitRoutes ==
    /\ procs = {1}
    /\ inbox \in {<<[b EXCEPT !.route = r]>> :
                     b \in {x \in Bodies : x.object}, r \in {"validated", "plain"}}
    /\ faults = [cap |-> None, used |-> 0]
    /\ horizon = 0
    /\ InitCommon

\* No process, no request: the compositor alone.
InitLogo ==
    /\ procs = {}
    /\ inbox = <<>>
    /\ faults = [cap |-> None, used |-> 0]
    /\ horizon = 0
    /\ InitCommon

\* A step of the route or of a worker.
Next ==
    \/ \E c \in DOMAIN inbox : Reject(c)
    \/ \E c \in DOMAIN inbox : Enqueue(c)
    \/ \E c \in DOMAIN inbox : Respond(c)
    \/ \E p \in procs : Start(p)
    \/ \E p \in procs : SynthReturn(p)
    \/ \E p \in procs : SaveImages(p)
    \/ \E p \in procs : LogoStep(p)

\* A step of the route or of a worker, or time passing.
NextTimed ==
    \/ \E c \in DOMAIN inbox : Enqueue(c)
    \/ \E c \in DOMAIN inbox : Respond(c)
    \/ \E p \in procs : Start(p)
    \/ \E p \in procs : SynthReturn(p)
    \/ \E p \in procs : SaveImages(p)
    \/ Tick

\* A step of the queue's side (a response changes nothing there), or time
\* passing.
NextQueue ==
    \/ \E c \in DOMAIN inbox : Enqueue(c)
    \/ \E p \in procs : Start(p)
    \/ \E p \in procs : SynthReturn(p)
    \/ \E p \in procs : SaveImages(p)
    \/ Tick

\* A step of the route for a valid request, or of a worker without logos.
NextDeliver ==
    \/ \E c \in DOMAIN inbox : Enqueue(c)
    \/ \E c \in DOMAIN inbox : Respond(c)
    \/ \E p \in procs : Start(p)
    \/ \E p \in procs : SynthReturn(p)
    \/ \E p \in procs : SaveImages(p)

\* The event loop of a live process runs the continuation of a settled
\* waitUntilFinished.
Delivery == \A c \in 1..MaxWaiters : WF_vars(c \in DOMAIN inbox /\ Respond(c))

\* A call of the compositor.
NextLogo ==
    \/ CallApplyLogo
    \/ CallCalculatePosition

\* One request on one process, the clock standing still.
Spec == Init /\ [][Next]_vars

\* A burst of requests on any number of processes, the clock running.
SpecQueue == InitQueue /\ [][NextQueue]_vars

\* A few requests on any number of processes, the clock running past the
\* timeout.
SpecWait == InitWait /\ [][NextTimed]_vars

\* One request on one process that mounts either route.
SpecRoutes == InitRoutes /\ [][Next]_vars

\* The compositor called with any arguments.
SpecLogo == InitLogo /\ [][NextLogo]_vars

\* A few requests on any number of processes, every settled wait answered.
SpecDeliver == InitDeliver /\ [][NextDeliver]_vars /\ Delivery

----------------------------------------------------------------------------
\* The claims.

JobIds == 1..Len(jobs)
CallersOf(j) == {c \in DOMAIN callers : callers[c].job = j}
FilesOf(j) == {f \in DOMAIN files : files[f].buf[1] = j}
Count(s, v) == Cardinality({x \in 1..Len(s) : s[x] = v})

RECURSIVE Ascending(_)
\* The numbers of S in increasing order.
Ascending(S) ==
    IF S = {} THEN <<>>
    ELSE LET m == CHOOSE x \in S : \A y \in S : x <= y
         IN <<m>> \o Ascending(S \ {m})

\* The synthesis index behind each image of job j's return value.
IndicesOf(j) ==
    [x \in 1..Len(jobs[j].images) |-> files[jobs[j].images[x]].buf[2]]

C2_PartialSuccess ==
    \A j \in JobIds :
        (/\ Terminal(j)
         /\ 0 \in jobs[j].okIdx
         /\ Len(jobs[j].saved) = Cardinality(jobs[j].okIdx)) =>
            /\ jobs[j].state = "completed"
            /\ IndicesOf(j) = Ascending(jobs[j].okIdx)

\* C3: a completed job has at least one image, and a response has no image
\* exactly when it is a failure.
C3_CompletedNotEmpty ==
    /\ \A j \in JobIds : jobs[j].state = "completed" => jobs[j].images # <<>>
    /\ \A c \in DOMAIN callers :
          callers[c].state = "done" =>
              (callers[c].resp.images = <<>> <=> callers[c].resp.success = FALSE)

\* C4: the number of images a worker loops over is a whole number from
\* MIN_IMAGES to MAX_IMAGES, and a response has at most that many images.
C4_NumImagesInRange ==
    /\ \A p \in procs :
          wk[p].pc # "idle" =>
              /\ wk[p].numImages % Scale = 0
              /\ wk[p].numImages \div Scale \in MIN_IMAGES..MAX_IMAGES
    /\ \A c \in DOMAIN callers :
          (callers[c].state = "done" /\ callers[c].job # 0) =>
              Len(callers[c].resp.images) * Scale
                  <= OrDefault(jobs[callers[c].job].data.numImages, DEFAULT_IMAGES * Scale)

\* C5: when applying the logo fails for a saved image, its file keeps the
\* bytes that were saved, the image is in the job's result, the logo is still
\* applied to every later image, and the job ends completed.
C5_CompositingDegrades ==
    \A j \in JobIds :
        \A x \in 1..Len(jobs[j].logoLog) :
            jobs[j].logoLog[x] = "throw" =>
                /\ files[jobs[j].saved[x]].logo = FALSE
                /\ Terminal(j) =>
                      /\ jobs[j].state = "completed"
                      /\ jobs[j].saved[x] \in Range(jobs[j].images)
                      /\ Len(jobs[j].logoLog) = Len(jobs[j].saved)
                      /\ \A y \in (x + 1)..Len(jobs[j].logoLog) :
                            jobs[j].logoLog[y] # "unread"

\* C6: a job whose call for index 0 succeeded never ends failed.
C6_OnlyFirstImageFatal ==
    \A j \in JobIds :
        (0 \in jobs[j].okIdx /\ Terminal(j)) => jobs[j].state = "completed"

\* C7: a caller whose job is not terminal when the timeout has elapsed is no
\* longer waiting: it was answered with a timeout error (while the job goes
\* on).
C7_TimeoutAnswersCaller ==
    \A c \in DOMAIN callers :
        (callers[c].state = "waiting" /\ ~Terminal(callers[c].job)) =>
            now - callers[c].since <= TimeoutTicks

\* C8: an image is reported failed on a "model warming up" answer only after
\* RETRY_ATTEMPTS calls for it, and on any other error after one call.
C8_WarmUpRetried ==
    /\ \A j \in JobIds :
          jobs[j].state = "failed" =>
              /\ jobs[j].reason = "loading" => Count(jobs[j].calls, 0) = RETRY_ATTEMPTS
              /\ jobs[j].reason = "error" => Count(jobs[j].calls, 0) = 1
    /\ \A p \in procs :
          (/\ wk[p].pc \in {"synth", "save"}
           /\ IsSome(wk[p].last)
           /\ wk[p].last[1].idx < wk[p].i) =>
              /\ wk[p].last[1].message = "loading" =>
                    Count(jobs[wk[p].job].calls, wk[p].last[1].idx) = RETRY_ATTEMPTS
              /\ wk[p].last[1].message = "error" =>
                    Count(jobs[wk[p].job].calls, wk[p].last[1].idx) = 1

\* C9: at most one job is active, whatever the number of requests and of
\* processes.
C9_OneActiveJob ==
    Cardinality({j \in JobIds : jobs[j].state = "active"}) <= 1

StartedInWindow(t) ==
    {j \in JobIds : /\ IsSome(jobs[j].startedAt)
                    /\ jobs[j].startedAt[1] \in t..(t + RateLimitTicks - 1)}

\* C11: in every time window of RATE_LIMIT_DURATION_MS, wherever it begins,
\* at most RATE_LIMIT_MAX jobs become active.
C11_RateWindow ==
    \A t \in 0..horizon : Cardinality(StartedInWindow(t)) <= RATE_LIMIT_MAX

\* What the route answers for job j once it is terminal.
ResultOf(j) ==
    IF jobs[j].state = "completed"
    THEN createSuccessResponse(jobs[j].images)
    ELSE createErrorResponse(500, jobs[j].reason)

\* C12: with any number of callers waiting at once, no two callers wait for
\* the same job, and the response of each is the terminal result of the job
\* its own request put on the queue.
C12_OwnResult ==
    /\ \A c, d \in DOMAIN callers :
          (c # d /\ callers[c].job # 0) => callers[c].job # callers[d].job
    /\ \A c \in DOMAIN callers :
          (callers[c].state = "done" /\ callers[c].job # 0) =>
              /\ Terminal(callers[c].job)
              /\ callers[c].resp = ResultOf(callers[c].job)

\* Two callers were answered, one with its images and one with its failure.
C12_Witness ==
    \E c, d \in DOMAIN callers :
        /\ callers[c].state = "done" /\ callers[d].state = "done"
        /\ jobs[callers[c].job].state = "completed"
        /\ callers[c].resp.images # <<>>
        /\ jobs[callers[d].job].state = "failed"

\* C13: a caller waiting for a job that has reached a terminal state
\* eventually gets its response.
C13_Delivered ==
    \A c \in 1..MaxWaiters :
        (IF c \in DOMAIN callers
         THEN callers[c].state = "waiting" /\ Terminal(callers[c].job)
         ELSE FALSE)
        ~> (IF c \in DOMAIN callers THEN callers[c].state = "done" ELSE FALSE)

\* The requests the specification names as failing validation.
Invalid(b) ==
    IF ~b.object THEN TRUE
    ELSE IF b.description.kind # "string" THEN TRUE
    ELSE IF b.description.len < 3 THEN TRUE
    ELSE IF b.description.len > 1000 THEN TRUE
    ELSE IF IsSome(b.numImages) /\ b.numImages[1] \notin Scale..(4 * Scale) THEN TRUE
    ELSE IF IsSome(b.resolution)
            /\ b.resolution[1] \notin {"512x512", "768x768", "1024x1024"} THEN TRUE
    ELSE FALSE

\* C14: a request that fails validation never owns a job: it adds nothing to
\* the queue's jobs or wait list, and its response is a 400 failure with a
\* message.
C14_InvalidRejected ==
    \A c \in DOMAIN callers :
        Invalid(inbox[c]) =>
            /\ callers[c].job = 0
            /\ callers[c].state # "waiting"
            /\ Len(jobs) <= c - 1
            /\ \A x \in 1..Len(wait) : wait[x] <= c - 1
            /\ callers[c].state = "done" =>
                  /\ callers[c].resp.status = 400
                  /\ callers[c].resp.success = FALSE
                  /\ callers[c].resp.error # ""

\* A request with too many images was answered while an earlier job is in the
\* queue.
C14_Witness ==
    /\ Len(inbox) = 2
    /\ inbox[2].numImages = Some(MAX_IMAGES * Scale + 1)
    /\ callers[2].state = "done"
    /\ callers[2].resp.status = 400
    /\ Len(jobs) = 1
    /\ ~Terminal(1)

\* C15: the response to a caller whose job ended failed is a 500 failure
\* with no image, also when images of the job were saved before it failed.
C15_FailedJob500 ==
    \A c \in DOMAIN callers :
        (/\ callers[c].state = "done"
         /\ callers[c].job # 0
         /\ jobs[callers[c].job].state = "failed") =>
            /\ callers[c].resp.status = 500
            /\ callers[c].resp.success = FALSE
            /\ callers[c].resp.images = <<>>

\* A caller was answered for a job that failed after its image was saved.
C15_Witness ==
    \E c \in DOMAIN callers :
        /\ callers[c].state = "done"
        /\ callers[c].job # 0
        /\ jobs[callers[c].job].state = "failed"
        /\ jobs[callers[c].job].saved # <<>>

\* C16: for a job whose request has no logo, or a logo of type none, the
\* worker's logo loop never runs: no saved image is read back, none is
\* overwritten, the files keep the bytes that were saved; and applyLogo
\* returns the base image unchanged for type none.
C16_NoLogoNoCompositing ==
    /\ \A j \in JobIds :
          jobs[j].data.logo.type \in {"absent", "none"} =>
              /\ jobs[j].logoLog = <<>>
              /\ \A p \in procs : wk[p].job = j => wk[p].pc # "logo"
              /\ \A f \in FilesOf(j) : files[f].logo = FALSE
    /\ \A c \in BOOLEAN, e \in BOOLEAN, ok \in BOOLEAN :
          /\ applyLogo([type |-> "none", content |-> c], Some(e), ok) = "unchanged"
          /\ applyLogo([type |-> "none", content |-> c], None, ok) = "unchanged"

\* A job with a logo of type none completed with all its four images.
C16_Witness ==
    \E j \in JobIds :
        /\ jobs[j].data.logo.type = "none"
        /\ jobs[j].state = "completed"
        /\ Len(jobs[j].images) = MAX_IMAGES
        /\ Cardinality(FilesOf(j)) = MAX_IMAGES

\* The errors that report a missing asset.
MissingAsset == {"LogoFileRequired", "TextRequired"}

\* C17: applyLogo fails with the unsupported-type error for a type that is
\* not none, image or text; with a missing-asset error for an image logo
\* without a path or whose path names no existing file, and for a text logo
\* with an empty content; it returns no composited image in these cases.
C17_CompositorRefuses ==
    comp.fn = "applyLogo" =>
        LET l == comp.logoSettings
            noFile == IF comp.logoPath = None THEN TRUE ELSE ~comp.logoPath[1]
        IN
        /\ l.type \notin {"none", "image", "text"} => comp.result = "UnsupportedType"
        /\ (l.type = "image" /\ noFile) => comp.result \in MissingAsset
        /\ (l.type = "text" /\ ~l.content) => comp.result \in MissingAsset

\* applyLogo was called for an image logo with the path of a file that does
\* not exist.
C17_Witness ==
    /\ comp.fn = "applyLogo"
    /\ comp.logoSettings.type = "image"
    /\ comp.logoPath = Some(FALSE)
    /\ comp.result = "LogoFileRequired"

\* The distance of twice an integer r from a number of half pixels.
Off(r, halves) == IF 2 * r >= halves THEN 2 * r - halves ELSE halves - 2 * r

\* The anchor formulas of the position algorithm, in half pixels, for the
\* padding P.
FormulaLeft(position, W, w, P) ==
    IF position \in {"top-left", "middle-left", "bottom-left"} THEN 2 * P
    ELSE IF position \in {"top-right", "middle-right", "bottom-right"} THEN 2 * (W - w - P)
    ELSE W - w
FormulaTop(position, H, h, P) ==
    IF position \in {"top-left", "top-center", "top-right"} THEN 2 * P
    ELSE IF position \in {"bottom-left", "bottom-center", "bottom-right"} THEN 2 * (H - h - P)
    ELSE H - h

\* C18: for each of the nine positions the computed left and top are the
\* integers nearest to the anchor formula plus the offset, whether or not
\* that lies inside the base image; for center at offset zero they are the
\* rounded halves of W - w and H - h.
C18_PositionLaw ==
    (comp.fn = "calculatePosition" /\ comp.position \in Positions) =>
        LET W == comp.image[1]
            H == comp.image[2]
            w == comp.logoSize[1]
            h == comp.logoSize[2]
        IN
        /\ Off(comp.at.left, FormulaLeft(comp.position, W, w, 20) + 2 * comp.offset[1]) <= 1
        /\ Off(comp.at.top, FormulaTop(comp.position, H, h, 20) + 2 * comp.offset[2]) <= 1
        /\ (comp.position = "center" /\ comp.offset = <<0, 0>>) =>
              /\ Off(comp.at.left, W - w) <= 1
              /\ Off(comp.at.top, H - h) <= 1

\* A placement that needed rounding and lies outside the base image on both
\* axes: left of it and below it.
C18_Witness ==
    /\ comp.fn = "calculatePosition"
    /\ comp.position = "center"
    /\ (comp.image[1] - comp.logoSize[1]) % 2 = 1
    /\ comp.at.left < 0
    /\ comp.at.top > comp.image[2]

\* C19: at offset zero, an overlay anchored to an edge of the base image has
\* its edge on that side exactly EDGE_PADDING pixels from it: its left or its
\* right edge, and its top or its bottom edge.
C19_PaddingLaw ==
    (comp.fn = "calculatePosition" /\ comp.offset = <<0, 0>>) =>
        LET W == comp.image[1]
            H == comp.image[2]
            w == comp.logoSize[1]
            h == comp.logoSize[2]
        IN
        /\ comp.position \in {"top-left", "middle-left", "bottom-left"} =>
              comp.at.left = 20
        /\ comp.position \in {"top-right", "middle-right", "bottom-right"} =>
              W - (comp.at.left + w) = 20
        /\ comp.position \in {"top-left", "top-center", "top-right"} =>
              comp.at.top = 20
        /\ comp.position \in {"bottom-left", "bottom-center", "bottom-right"} =>
              H - (comp.at.top + h) = 20

\* bottom-right on a base of 1000 x 1000: the overlay's corner is at
\* (980, 980).
C19_Witness ==
    /\ comp.fn = "calculatePosition"
    /\ comp.position = "bottom-right"
    /\ comp.offset = <<0, 0>>
    /\ comp.image = <<1000, 1000>>
    /\ comp.logoSize = <<MaxOverlay, 1>>
    /\ comp.at.left + comp.logoSize[1] = 980
    /\ comp.at.top + comp.logoSize[2] = 980

\* C20: every payload on the queue has its category, number of images and
\* resolution set (to the supplied value or the default), so the values
\* the worker arrives at after its own defaulting are the payload's.
C20_DefaultsOnce ==
    /\ \A j \in JobIds :
          /\ IsSome(jobs[j].data.category)
          /\ IsSome(jobs[j].data.numImages)
          /\ IsSome(jobs[j].data.resolution)
    /\ \A p \in procs :
          wk[p].pc \notin {"idle", "dead"} =>
              jobs[wk[p].job].data.numImages = Some(wk[p].numImages)

----------------------------------------------------------------------------
\* The synthesis request.

\* parseResolution: the two numbers of "WIDTHxHEIGHT", 1024 for one that is
\* missing or 0.
parseResolution(resolution) ==
    CASE resolution = "512x512" -> [width |-> 512, height |-> 512]
      [] resolution = "768x768" -> [width |-> 768, height |-> 768]
      [] resolution = "640x480" -> [width |-> 640, height |-> 480]
      [] OTHER -> [width |-> 1024, height |-> 1024]

\* optimizePrompt: the prompt is made of the description and the category
\* (style, angle and color are the same in every request of the model).
optimizePrompt(description, category) ==
    [description |-> description, category |-> category]

\* The options the worker hands to generateImages for a job's payload.
GenerateImageOptions(data) ==
    [prompt |-> optimizePrompt(data.description,
                               OrDefaultStr(data.category, DEFAULT_CATEGORY)),
     numImages |-> OrDefault(data.numImages, DEFAULT_IMAGES * Scale),
     width |-> parseResolution(OrDefaultStr(data.resolution, DEFAULT_RESOLUTION)).width,
     height |-> parseResolution(OrDefaultStr(data.resolution, DEFAULT_RESOLUTION)).height]

\* The body callHuggingFace(prompt, negativePrompt) posts: the prompt and
\* the parameters, which are constants of the program.
RequestPayload(prompt) ==
    [inputs |-> prompt, parameters |-> "AI_PARAMS"]

\* What generateImages sends for each index of a job: it takes prompt,
\* negativePrompt and numImages of its options, and calls
\* callHuggingFace(prompt, negativePrompt).
SynthesisRequest(options) == RequestPayload(options.prompt)

\* Two payloads that differ in their resolution and in nothing else.
DifferOnlyInResolution(d1, d2) ==
    /\ GenerateImageOptions(d1).width # GenerateImageOptions(d2).width
    /\ [d1 EXCEPT !.resolution = None] = [d2 EXCEPT !.resolution = None]

\* C21: two jobs whose payloads differ only in the resolution, and whose
\* synthesis calls were issued, did not send the same synthesis request:
\* the requested width and height are part of the request.
C21_ResolutionInRequest ==
    \A j1 \in JobIds, j2 \in JobIds :
        (/\ jobs[j1].calls # <<>>
         /\ jobs[j2].calls # <<>>
         /\ DifferOnlyInResolution(jobs[j1].data, jobs[j2].data))
        => SynthesisRequest(GenerateImageOptions(jobs[j1].data))
              # SynthesisRequest(GenerateImageOptions(jobs[j2].data))

----------------------------------------------------------------------------
\* The compositor's pipeline, with the sizes of its buffers.  A buffer is
\* the pair <<width, height>> of the image it holds.

\* The largest logo size a request carries, in percent.
MaxSize == 200
\* The uploaded logo file's width and height.
AssetWidth == 100
AssetHeight == 40

MIN_SIZE == 5
MAX_SIZE == 50
DEFAULT_SIZE == 20

\* logo.size of a request: nothing on the way from the body to resizeLogo
\* checks it, so every number is an input.
LogoSizes == {0, MIN_SIZE - 1, MIN_SIZE, DEFAULT_SIZE, MAX_SIZE, MAX_SIZE + 1, MaxSize}
\* logo.rotation: undefined, or degrees (quarter turns, whose bounding box
\* is exact).
Rotations == {None, Some(0), Some(90), Some(180), Some(-90)}

\* The logo settings of a request, with the fields the pipeline reads.
SizedLogos ==
    [type : {"image", "text"}, content : {TRUE}, size : LogoSizes,
     rotation : Rotations, position : Positions]

\* Math.round(a / b) for a >= 0 and b > 0.
RoundDiv(a, b) == (2 * a + b) \div (2 * b)

\* resizeLogo: the target width from the percentage it is given, then
\* sharp's resize to that width (fit inside, enlargement allowed), which
\* throws for a width that is not positive.  The width and height it
\* returns are those of metadata(), the input's.
resizeLogo(logoBuffer, imageWidth, sizePercent) ==
    LET targetWidth == RoundDiv(imageWidth * sizePercent, 100)
        scaledHeight == RoundDiv(logoBuffer[2] * targetWidth, logoBuffer[1])
    IN [ok |-> targetWidth > 0,
        sizePercent |-> sizePercent,
        buffer |-> <<targetWidth, IF scaledHeight < 1 THEN 1 ELSE scaledHeight>>,
        width |-> logoBuffer[1],
        height |-> logoBuffer[2]]

\* sharp's rotate by quarter turns: the bounding box of the turned image.
Rotated(buffer, degrees) ==
    IF degrees % 180 = 0 THEN buffer ELSE <<buffer[2], buffer[1]>>

\* The test  rotation && rotation !== 0  of processLogoEffects.
Rotates(rotation) == IF rotation = None THEN FALSE ELSE rotation[1] # 0

\* processLogoEffects: the rotation if one is asked for (the opacity leaves
\* the size of the buffer as it is).
processLogoEffects(logoBuffer, rotation) ==
    IF Rotates(rotation) THEN Rotated(logoBuffer, rotation[1]) ELSE logoBuffer

\* createTextWatermark: an SVG as wide as the base image and two font sizes
\* high; sharp throws for an SVG of height 0.
createTextWatermark(imageWidth, sizePercent) ==
    LET fontSize == RoundDiv(imageWidth * sizePercent, 200)
    IN [ok |-> fontSize > 0, sizePercent |-> sizePercent,
        buffer |-> <<imageWidth, fontSize * 2>>]

\* An applyImageLogo that measures the overlay before it is rotated.
FinalLogoSizeUnrotated(resized, processedLogo) == resized.buffer

\* applyImageLogo: the size it positions is that of metadata() of the
\* processed logo, and resizeLogo's where metadata gives none.
FinalLogoSize(resized, processedLogo) ==
    <<IF processedLogo[1] # 0 THEN processedLogo[1] ELSE resized.width,
      IF processedLogo[2] # 0 THEN processedLogo[2] ELSE resized.height>>

\* applyTextWatermark: the size it positions is that of metadata() of the
\* processed text.
TextSize(processedText) == processedText

\* The steps of a run that got past its first one.
StepsAfter(first, rotation) ==
    <<first>> \o (IF Rotates(rotation) THEN <<"rotate">> ELSE <<>>)
              \o <<"measure", "position">>

\* applyImageLogo on a base image and the logo file's image.
applyImageLogo(base, logoSettings, logoBuffer) ==
    LET resized == resizeLogo(logoBuffer, base[1], logoSettings.size)
        processedLogo == processLogoEffects(resized.buffer, logoSettings.rotation)
        final == FinalLogoSize(resized, processedLogo)
    IN IF ~resized.ok
       THEN [fn |-> "applyImageLogo", logoSettings |-> logoSettings, image |-> base,
             steps |-> <<"scale">>, sizePercent |-> resized.sizePercent,
             overlay |-> resized.buffer, processed |-> resized.buffer,
             logoSize |-> <<0, 0>>, at |-> [left |-> 0, top |-> 0],
             result |-> "SharpError"]
       ELSE [fn |-> "applyImageLogo", logoSettings |-> logoSettings, image |-> base,
             steps |-> StepsAfter("scale", logoSettings.rotation),
             sizePercent |-> resized.sizePercent,
             overlay |-> resized.buffer, processed |-> processedLogo,
             logoSize |-> final,
             at |-> calculatePosition(base[1], base[2], final[1], final[2],
                                      logoSettings.position, 0, 0),
             result |-> "composited"]

\* applyTextWatermark on a base image.
applyTextWatermark(base, logoSettings) ==
    LET text == createTextWatermark(base[1], logoSettings.size)
        processedText == processLogoEffects(text.buffer, logoSettings.rotation)
        final == TextSize(processedText)
    IN IF ~text.ok
       THEN [fn |-> "applyTextWatermark", logoSettings |-> logoSettings, image |-> base,
             steps |-> <<"createTextWatermark">>, sizePercent |-> text.sizePercent,
             overlay |-> text.buffer, processed |-> text.buffer,
             logoSize |-> <<0, 0>>, at |-> [left |-> 0, top |-> 0],
             result |-> "SharpError"]
       ELSE [fn |-> "applyTextWatermark", logoSettings |-> logoSettings, image |-> base,
             steps |-> StepsAfter("createTextWatermark", logoSettings.rotation),
             sizePercent |-> text.sizePercent,
             overlay |-> text.buffer, processed |-> processedText,
             logoSize |-> final,
             at |-> calculatePosition(base[1], base[2], final[1], final[2],
                                      logoSettings.position, 0, 0),
             result |-> "composited"]

\* The worker's applyLogo for one saved image of an accepted request whose
\* logo is an image: the request passed validateGenerateRequest, the payload
\* carries its logo as it came, and the logo file exists.
CompositeImage ==
    /\ comp.fn = "none"
    /\ \E l \in SizedLogos, W \in BaseDims, H \in BaseDims :
        /\ l.type = "image"
        /\ validateGenerateRequest(Body(GoodDesc, None, None, l))
        /\ LogoRequested(JobPayload(Body(GoodDesc, None, None, l)).logo)
        /\ comp' = applyImageLogo(<<W, H>>, JobPayload(Body(GoodDesc, None, None, l)).logo,
                                  <<AssetWidth, AssetHeight>>)
    /\ UNCHANGED <<procs, now, inbox, callers, jobs, wait, limiter, wk, files, started,
                   faults, horizon>>

\* The same for a text watermark.
CompositeText ==
    /\ comp.fn = "none"
    /\ \E l \in SizedLogos, W \in BaseDims, H \in BaseDims :
        /\ l.type = "text"
        /\ validateGenerateRequest(Body(GoodDesc, None, None, l))
        /\ LogoRequested(JobPayload(Body(GoodDesc, None, None, l)).logo)
        /\ comp' = applyTextWatermark(<<W, H>>, JobPayload(Body(GoodDesc, None, None, l)).logo)
    /\ UNCHANGED <<procs, now, inbox, callers, jobs, wait, limiter, wk, files, started,
                   faults, horizon>>

NextOverlay ==
    \/ CompositeImage
    \/ CompositeText

\* One compositing run of the worker, for every logo an accepted request
\* can carry.
SpecOverlay == InitLogo /\ [][NextOverlay]_vars

\* A compositing run, and one that reached its scaling step.
OverlayRun == comp.fn \in {"applyImageLogo", "applyTextWatermark"}

\* C22: the size that reaches the scaling step (resizeLogo for an image
\* logo, createTextWatermark for a text) is within MIN_SIZE..MAX_SIZE.
C22_SizeClamped ==
    OverlayRun => (comp.sizePercent >= MIN_SIZE /\ comp.sizePercent <= MAX_SIZE)

\* C23: the overlay a run composites has, before its rotation, the width
\* round(W * size / 100) of the base image's width W, for an image logo
\* (also beyond the file's own width) and for a text watermark.
C23_ScaledWidth ==
    (OverlayRun /\ comp.result = "composited")
        => comp.overlay[1] = RoundDiv(comp.image[1] * comp.logoSettings.size, 100)

\* The place of a step in the order scale, rotate, measure, position (0 for
\* a step that is none of them).
StepRank(s) ==
    CASE s = "scale" -> 1 [] s = "rotate" -> 2 [] s = "measure" -> 3
      [] s = "position" -> 4 [] OTHER -> 0

\* C24: in a run that composites, the steps scale, rotate, measure and
\* position occur in that order, measure and position among them, and the
\* size the position is calculated for is the overlay's after its rotation.
C24_MeasureAfterRotate ==
    (OverlayRun /\ comp.result = "composited") =>
        /\ \A x \in 1..Len(comp.steps), y \in 1..Len(comp.steps) :
              (x < y /\ StepRank(comp.steps[x]) > 0) =>
                  StepRank(comp.steps[x]) < StepRank(comp.steps[y])
        /\ comp.steps[Len(comp.steps) - 1] = "measure"
        /\ comp.steps[Len(comp.steps)] = "position"
        /\ ("rotate" \in Range(comp.steps)) = Rotates(comp.logoSettings.rotation)
        /\ comp.logoSize =
              IF Rotates(comp.logoSettings.rotation)
              THEN Rotated(comp.overlay, comp.logoSettings.rotation[1])
              ELSE comp.overlay

\* A logo of half the width of a 1000 x 1000 image, turned by 90 degrees: it
\* is 500 x 200 before the rotation and positioned as 200 x 500.
C24_Witness ==
    /\ comp.fn = "applyImageLogo"
    /\ comp.result = "composited"
    /\ comp.logoSettings.rotation = Some(90)
    /\ comp.image = <<MaxBase, MaxBase>>
    /\ comp.overlay[1] > comp.overlay[2]
    /\ comp.logoSize = <<comp.overlay[2], comp.overlay[1]>>
    /\ comp.steps = <<"scale", "rotate", "measure", "position">>

\* Whether a job's generation loop is over: every call it issued settled.
Generated(j) == jobs[j].okIdx \cup jobs[j].rejected = Range(jobs[j].calls)

\* C25: within a job the synthesis calls are issued for the indices 0, 1,
\* ... in this order; nothing is persisted before the last call settled;
\* compositing begins only when every image of the job's result is in the
\* storage and writes no filename but those persistence created; and the
\* result of a completed job is what was persisted.
C25_PhaseOrder ==
    /\ \A j \in JobIds :
          /\ jobs[j].calls = [x \in 1..Len(jobs[j].calls) |-> x - 1]
          /\ jobs[j].state = "waiting" => jobs[j].calls = <<>>
          /\ ~Generated(j) => (jobs[j].saved = <<>> /\ jobs[j].logoLog = <<>>)
          /\ jobs[j].logoLog # <<>> =>
                (jobs[j].saved # <<>> /\ Range(jobs[j].saved) \subseteq DOMAIN files)
          /\ jobs[j].state = "completed" =>
                (Generated(j) /\ jobs[j].images = jobs[j].saved)
    /\ \A p \in procs :
          /\ wk[p].pc = "synth" =>
                (jobs[wk[p].job].state = "active" /\ ~Generated(wk[p].job))
          /\ wk[p].pc = "save" =>
                (Generated(wk[p].job) /\ jobs[wk[p].job].saved = <<>>)
          /\ wk[p].pc = "logo" =>
                /\ jobs[wk[p].job].state = "active"
                /\ wk[p].savedImages = jobs[wk[p].job].saved
                /\ Range(wk[p].savedImages) \subseteq DOMAIN files
    /\ DOMAIN files = UNION {Range(jobs[j].saved) : j \in JobIds}

\* A job of two images with a logo went through all phases: both images
\* were generated, persisted, composited, and the job completed.
C25_Witness ==
    \E j \in JobIds :
        /\ jobs[j].state = "completed"
        /\ jobs[j].calls = <<0, 1>>
        /\ Len(jobs[j].saved) = 2
        /\ jobs[j].logoLog = <<"composited", "composited">>
        /\ \A x \in 1..2 : files[jobs[j].saved[x]].logo

----------------------------------------------------------------------------
\* The storage on its own: calls of saveImagesLocally by the jobs' workers.

\* Calls of saveImagesLocally in a behaviour, buffers of a call, values of
\* Date.now() and prefixes uuidv4().slice(0, 8) a call may draw.
MaxBatches == 2
MaxBuffers == 3
MaxStamp == 1
NumBatchIds == 2

\* saveImagesLocally is called for the next job: Date.now() is not before
\* that of the last call, the uuid's prefix is any value, and any of the
\* writes may fail.
SaveBatch ==
    /\ Len(jobs) < MaxBatches
    /\ \E n \in 1..MaxBuffers, timestamp \in now..MaxStamp, batchId \in 1..NumBatchIds :
        \E ok \in SUBSET (1..n) :
          LET j == Len(jobs) + 1
              imageBuffers == [x \in 1..n |-> <<j, x - 1>>]
              r == saveImagesLocally(imageBuffers, timestamp, batchId, ok)
          IN
          /\ now' = timestamp
          /\ files' = [f \in DOMAIN files \cup DOMAIN r.files |->
                          IF f \in DOMAIN r.files THEN r.files[f] ELSE files[f]]
          /\ jobs' = Append(jobs, [imageBuffers |-> imageBuffers, timestamp |-> timestamp,
                                   batchId |-> batchId, ok |-> ok,
                                   saved |-> r.savedImages])
    /\ UNCHANGED <<procs, inbox, callers, wait, limiter, wk, started, faults, horizon, comp>>

NextStorage == SaveBatch

SpecStorage == InitLogo /\ [][NextStorage]_vars

\* C26: the filenames of the persisted images are pairwise distinct, within
\* a job and across jobs, and every persisted image is still the content of
\* its file: no other image's write replaced it.
C26_FilenamesDistinct ==
    /\ \A j \in JobIds :
          /\ \A x \in 1..Len(jobs[j].saved), y \in 1..Len(jobs[j].saved) :
                x # y => jobs[j].saved[x] # jobs[j].saved[y]
          /\ \A x \in 1..Len(jobs[j].saved) :
                files[jobs[j].saved[x]].buf[1] = j
    /\ \A j1 \in JobIds, j2 \in JobIds :
          j1 # j2 => Range(jobs[j1].saved) \cap Range(jobs[j2].saved) = {}

\* C27: of a call of saveImagesLocally, every buffer whose write succeeds is
\* in the directory and in the result, also after a write that failed; the
\* buffers whose write failed, and only they, are left out; and the entries
\* returned are in the order of their buffers.
C27_FailedWriteSkipped ==
    \A j \in JobIds :
        LET saved == jobs[j].saved
            name(x) == generateFilename(jobs[j].timestamp, jobs[j].batchId, x - 1)
        IN
        /\ \A x \in jobs[j].ok : name(x) \in DOMAIN files
        /\ {saved[k] : k \in 1..Len(saved)} = {name(x) : x \in jobs[j].ok}
        /\ Len(saved) = Cardinality(jobs[j].ok)
        /\ \A k \in 1..Len(saved), l \in 1..Len(saved) :
              k < l => saved[k][3] < saved[l][3]

\* Of three buffers the write of the second failed: the first and the third
\* are returned, in this order, and the third is in the directory.
C27_Witness ==
    \E j \in JobIds :
        /\ Len(jobs[j].imageBuffers) = 3
        /\ jobs[j].ok = {1, 3}
        /\ Len(jobs[j].saved) = 2
        /\ jobs[j].saved[1][3] = 0
        /\ jobs[j].saved[2][3] = 2
        /\ jobs[j].saved[2] \in DOMAIN files

\* The synthesis calls that were issued and have not settled.
InFlight == {p \in procs : wk[p].pc = "synth"}

\* C28: at most one synthesis call is in flight, of whatever job, and a job
\* has issued at most one call more than have settled.
C28_OneSynthesisInFlight ==
    /\ Cardinality(InFlight) <= 1
    /\ \A j \in JobIds :
          Len(jobs[j].calls) <= Cardinality(jobs[j].okIdx \cup jobs[j].rejected) + 1

\* The service answers every call (or the connection fails), and a worker
\* whose process lives takes its next step.
Progress ==
    \A p \in 1..NumProcs :
        /\ WF_vars(p \in procs /\ Start(p))
        /\ WF_vars(p \in procs /\ SynthReturn(p))
        /\ WF_vars(p \in procs /\ SaveImages(p))

\* Requests served by workers that make progress.
SpecProgress == InitDeliver /\ [][NextDeliver]_vars /\ Delivery /\ Progress

\* C29: every job that becomes active reaches completed or failed, whatever
\* the service answers to its synthesis calls.
C29_JobsTerminate ==
    \A j \in 1..MaxWaiters :
        (IF j \in JobIds THEN jobs[j].state = "active" ELSE FALSE)
            ~> (IF j \in JobIds THEN Terminal(j) ELSE FALSE)

----------------------------------------------------------------------------
\* The logo file of an image logo.  A string is the sequence of its parts
\* between slashes ("/logos/a.png" is <<"", "logos", "a.png">>), a path the
\* sequence of its directories from the root.

\* Parts of a content string, and the parts it is made of.
MaxParts == 4
ContentParts == {"", "..", "logo.png", "http:"}

\* logo.content of a request: any non-empty string.
Contents ==
    UNION {[1..n -> ContentParts] : n \in 1..MaxParts} \ {<<"">>}

\* path.join(process.cwd(), 'public', 'logos').
LOGOS_DIR == <<"app", "public", "logos">>

\* content.startsWith('/').
startsWithSlash(content) == Len(content) >= 2 /\ content[1] = ""

\* The worker's logoFilename: the last part of a content that starts with a
\* slash, the content itself otherwise.
logoFilename(content) ==
    IF startsWithSlash(content) THEN <<content[Len(content)]>> ELSE content

\* path.normalize: empty parts are dropped, and a ".." takes the directory
\* before it away (the root has none above it).
RECURSIVE Normalize(_, _)
Normalize(parts, acc) ==
    IF parts = <<>> THEN acc
    ELSE IF Head(parts) = "" THEN Normalize(Tail(parts), acc)
    ELSE IF Head(parts) = ".."
         THEN Normalize(Tail(parts),
                        IF acc = <<>> THEN acc ELSE SubSeq(acc, 1, Len(acc) - 1))
    ELSE Normalize(Tail(parts), Append(acc, Head(parts)))

\* getLogoPath: path.join(LOGOS_DIR, filename).
getLogoPath(filename) == Normalize(filename, LOGOS_DIR)

\* Whether a path is the logos directory or lies in it.
InLogosDir(path) ==
    IF Len(path) < Len(LOGOS_DIR) THEN FALSE
    ELSE SubSeq(path, 1, Len(LOGOS_DIR)) = LOGOS_DIR

\* The worker resolves the logo of an accepted request and calls applyLogo,
\* which reads the file if one exists at the path.
ResolveLogo ==
    /\ comp.fn = "none"
    /\ \E content \in Contents, exists \in BOOLEAN :
        LET b == Body(GoodDesc, None, None, [type |-> "image", content |-> content])
            logo == JobPayload(b).logo
        IN
        /\ validateGenerateRequest(b)
        /\ LogoRequested(logo)
        /\ comp' = [fn |-> "getLogoPath", logoSettings |-> logo,
                    logoPath |-> getLogoPath(logoFilename(logo.content)),
                    read |-> exists]
    /\ UNCHANGED <<procs, now, inbox, callers, jobs, wait, limiter, wk, files, started,
                   faults, horizon>>

NextAsset == ResolveLogo

SpecAsset == InitLogo /\ [][NextAsset]_vars

\* C30: the file the worker resolves for an image logo, and the compositor
\* reads, is in the logos directory, whatever the content string.
C30_LogoInsideDir ==
    (comp.fn = "getLogoPath" /\ comp.read) => InLogosDir(comp.logoPath)

====
